---- MODULE Spec2Model ----
(***************************************************************************)
(* Volcano speech-to-text entity (custom_components/volcano/stt.py):       *)
(* the binary frame header, the response decoder and the recognition       *)
(* session async_process_audio_stream; and the text-to-speech provider     *)
(* (custom_components/volcano/tts.py): async_get_tts_audio.                *)
(*                                                                         *)
(* Python evaluation is modelled with explicit outcomes: an expression     *)
(* either yields a value, Ok(v), or raises, Raise(e).  Names are looked up *)
(* in the module namespace of stt.py and attributes on the entity          *)
(* instance, as the interpreter does at run time.                          *)
(***************************************************************************)
EXTENDS Integers, Sequences, FiniteSets, TLC

VARIABLES
    stream,     \* the chunks the caller's audio stream yields, in order
    net,        \* what the network does: connect outcome and per-exchange replies
    outcome,    \* the last call's returned value and wire log
    res,        \* the bytes handed to _parse_response
    parsed,     \* what _parse_response did with them
    http,       \* what the synthesis endpoint does with the POST
    tts,        \* what async_get_tts_audio returned
    frame,      \* a message type, flags, methods and payload to be framed
    rt          \* the frame built from them and what decoding it gave

vars == <<stream, net, outcome, res, parsed, http, tts, frame, rt>>

(***************************************************************************)
(* Bounds of the model.                                                    *)
(***************************************************************************)
MaxChunks == 2
MaxHeaderSize == 2
MaxB64Len == 4

(***************************************************************************)
(* Python outcomes.                                                        *)
(***************************************************************************)
Ok(v) == [ok |-> TRUE, val |-> v, exc |-> "none"]
Raise(e) == [ok |-> FALSE, val |-> 0, exc |-> e]

(***************************************************************************)
(* Protocol constants, stt.py:45-78.                                       *)
(***************************************************************************)
PROTOCOL_VERSION == 1
DEFAULT_HEADER_SIZE == 1
CLIENT_FULL_REQUEST == 1
CLIENT_AUDIO_ONLY_REQUEST == 2
SERVER_FULL_RESPONSE == 9
SERVER_ACK == 11
SERVER_ERROR_RESPONSE == 15
NO_SEQUENCE == 0
POS_SEQUENCE == 1
NEG_SEQUENCE == 2
NEG_SEQUENCE_1 == 3
NO_SERIALIZATION == 0
JSON == 1
THRIFT == 3
CUSTOM_TYPE == 15
NO_COMPRESSION == 0
GZIP == 1
CUSTOM_COMPRESSION == 15

\* The integer constants bound at module level (stt.py:45-78), by name.
ModuleConstants ==
    [PROTOCOL_VERSION |-> PROTOCOL_VERSION,
     DEFAULT_HEADER_SIZE |-> DEFAULT_HEADER_SIZE,
     PROTOCOL_VERSION_BITS |-> 4, HEADER_BITS |-> 4, MESSAGE_TYPE_BITS |-> 4,
     MESSAGE_TYPE_SPECIFIC_FLAGS_BITS |-> 4, MESSAGE_SERIALIZATION_BITS |-> 4,
     MESSAGE_COMPRESSION_BITS |-> 4, RESERVED_BITS |-> 8,
     CLIENT_FULL_REQUEST |-> CLIENT_FULL_REQUEST,
     CLIENT_AUDIO_ONLY_REQUEST |-> CLIENT_AUDIO_ONLY_REQUEST,
     SERVER_FULL_RESPONSE |-> SERVER_FULL_RESPONSE,
     SERVER_ACK |-> SERVER_ACK,
     SERVER_ERROR_RESPONSE |-> SERVER_ERROR_RESPONSE,
     NO_SEQUENCE |-> NO_SEQUENCE, POS_SEQUENCE |-> POS_SEQUENCE,
     NEG_SEQUENCE |-> NEG_SEQUENCE, NEG_SEQUENCE_1 |-> NEG_SEQUENCE_1,
     NO_SERIALIZATION |-> NO_SERIALIZATION, JSON |-> JSON, THRIFT |-> THRIFT,
     CUSTOM_TYPE |-> CUSTOM_TYPE,
     NO_COMPRESSION |-> NO_COMPRESSION, GZIP |-> GZIP,
     CUSTOM_COMPRESSION |-> CUSTOM_COMPRESSION]

\* Every other name bound in the module namespace of stt.py: its imports
\* (lines 4-34), async_setup_entry (36) and the entity class (81).
ModuleOtherNames ==
    {"annotations", "asyncio", "gzip", "json", "uuid", "Any", "websockets",
     "AudioBitRates", "AudioChannels", "AudioCodecs", "AudioFormats",
     "AudioSampleRates", "SpeechMetadata", "SpeechResult", "SpeechResultState",
     "SpeechToTextEntity", "ConfigEntry", "HomeAssistant", "dr",
     "AddEntitiesCallback", "CONF_ACCESS_TOKEN", "CONF_APPID",
     "CONF_STT_CLUSTER", "CONF_HOST", "DOMAIN",
     "async_setup_entry", "VolcanoSpeechToTextEntity"}

ModuleNames == (DOMAIN ModuleConstants) \cup ModuleOtherNames

\* Loading a global name inside a function body: NameError when neither the
\* module nor the builtins bind it (no name looked up here is a builtin).
Global(name) ==
    IF name \in DOMAIN ModuleConstants THEN Ok(ModuleConstants[name])
    ELSE IF name \in ModuleNames THEN Ok(0)
    ELSE Raise("NameError")

\* The attributes of a VolcanoSpeechToTextEntity instance: those __init__
\* sets (stt.py:86-98) and the members the class defines (100-216).
InstanceAttrs ==
    {"_attr_unique_id", "_attr_name", "_attr_device_info", "_entry", "_ws_url",
     "_success_code",
     "supported_languages", "supported_formats", "supported_codecs",
     "supported_bit_rates", "supported_sample_rates", "supported_channels",
     "_generate_header", "_construct_request", "_parse_response",
     "async_process_audio_stream"}

\* self._success_code, stt.py:98.
SuccessCode == 1000

\* self.<name>: AttributeError when the instance has no such attribute.
SelfAttr(name) ==
    IF name = "_success_code" THEN Ok(SuccessCode)
    ELSE IF name \in InstanceAttrs THEN Ok(0)
    ELSE Raise("AttributeError")

(***************************************************************************)
(* _generate_header, stt.py:130-142.  The four header bytes; x << 4 | y    *)
(* with y < 16 is x * 16 + y.  The names are loaded in the order the body  *)
(* evaluates them (lines 138, 140).                                        *)
(***************************************************************************)
_generate_header(message_type, message_type_specific_flags) ==
    LET header_size == 1
        pv == Global("PROTOCOL_VERSION")
        ser == Global("JSON_SERIALIZATION")
        comp == Global("GZIP_COMPRESSION")
    IN  IF ~pv.ok THEN pv
        ELSE IF ~ser.ok THEN ser
        ELSE IF ~comp.ok THEN comp
        ELSE Ok(<<pv.val * 16 + header_size,
                  message_type * 16 + message_type_specific_flags,
                  ser.val * 16 + comp.val,
                  0>>)

(***************************************************************************)
(* Byte strings.  The first four bytes of a message are kept as bytes; the *)
(* rest is a sequence of tokens, each a run of bytes: a 4-byte big-endian  *)
(* word, or a blob with abstract content.  A token is                      *)
(*   [len: bytes, v: value of its first 4 bytes, c: content]               *)
(* and a content is [gz, k, j]: the bytes are (gz: the gzip compression    *)
(* of) JSON text of value j (k = "json"), other UTF-8 text ("text"),       *)
(* bytes that are no UTF-8 ("bin"), or nothing ("empty").                  *)
(***************************************************************************)
NoJson == [t |-> "none", code |-> <<>>, text |-> <<>>]
JDict(code, text) == [t |-> "dict", code |-> code, text |-> text]
JOther == [t |-> "other", code |-> <<>>, text |-> <<>>]

Content(gz, k, j) == [gz |-> gz, k |-> k, j |-> j]
EmptyContent == Content(FALSE, "empty", NoJson)

\* A 4-byte word is UTF-8 text exactly when each of its bytes is below 128
\* (no byte of it starts or continues a multi-byte sequence).
WordIsUtf8(v) ==
    /\ v % 256 < 128
    /\ (v \div 256) % 256 < 128
    /\ (v \div 65536) % 256 < 128
    /\ (v \div 16777216) % 256 < 128

Word(v) == [len |-> 4, v |-> v,
            c |-> Content(FALSE, IF WordIsUtf8(v) THEN "text" ELSE "bin", NoJson)]

\* The first four bytes of gzip output, 1f 8b 08 00, as a big-endian integer.
GzipMagic == ((31 * 256 + 139) * 256 + 8) * 256
\* The first four bytes of JSON object text such as {"co: 7b 22 63 6f.
JsonLead == ((123 * 256 + 34) * 256 + 99) * 256 + 111

GzJsonBlob(j, n) == [len |-> n, v |-> GzipMagic, c |-> Content(TRUE, "json", j)]
JsonBlob(j, n) == [len |-> n, v |-> JsonLead, c |-> Content(FALSE, "json", j)]
GzTextBlob(n) == [len |-> n, v |-> GzipMagic, c |-> Content(TRUE, "text", NoJson)]

IsUtf8(c) == ~c.gz /\ c.k # "bin"

RECURSIVE ByteLen(_)
ByteLen(toks) == IF toks = <<>> THEN 0 ELSE Head(toks).len + ByteLen(Tail(toks))

\* b[4:] of a byte string: a word goes; a blob loses its first four bytes, and
\* what is left of it is neither gzip nor JSON (text stays text).  The value
\* of the bytes that now come first is not modelled (0).
Drop4(toks) ==
    IF toks = <<>> THEN <<>>
    ELSE IF Head(toks).len <= 4 THEN Tail(toks)
    ELSE <<[len |-> Head(toks).len - 4, v |-> 0,
            c |-> Content(FALSE, IF IsUtf8(Head(toks).c) THEN "text" ELSE "bin", NoJson)]>>
         \o Tail(toks)

RECURSIVE DropWords(_, _)
DropWords(toks, n) == IF n <= 0 THEN toks ELSE DropWords(Drop4(toks), n - 1)

\* int.from_bytes(b[:4], "big", signed=False); the empty string gives 0.
Unsigned4(toks) == IF toks = <<>> THEN 0 ELSE Head(toks).v

\* int.from_bytes(b[:4], "big", signed=True).  The words of the model are
\* below 2^31 (top bit clear), where the signed reading is the unsigned one.
Signed4(toks) == Unsigned4(toks)

\* The content of the byte string the tokens make up.
BytesContent(toks) ==
    IF toks = <<>> THEN EmptyContent
    ELSE IF Len(toks) = 1 THEN toks[1].c
    ELSE Content(FALSE,
                 IF \A i \in 1..Len(toks) : IsUtf8(toks[i].c) THEN "text" ELSE "bin",
                 NoJson)

\* gzip.decompress: the empty string decompresses to the empty string.
GzipDecompress(c) ==
    IF c.gz THEN Ok(Content(FALSE, c.k, c.j))
    ELSE IF c.k = "empty" THEN Ok(c)
    ELSE Raise("BadGzipFile")

\* str(b, "utf-8")
StrUtf8(c) == IF IsUtf8(c) THEN Ok(c) ELSE Raise("UnicodeDecodeError")

\* json.loads(s)
JsonLoads(c) == IF c.k = "json" THEN Ok(c.j) ELSE Raise("JSONDecodeError")

\* A Python value held under result['payload_msg']: parsed JSON, a str or bytes.
PyVal(py, j) == [py |-> py, j |-> j]

\* The dict _parse_response builds; a key that is absent is the empty tuple.
EmptyResult == [seq |-> <<>>, code |-> <<>>, payload_msg |-> <<>>, payload_size |-> <<>>]

\* The bytes of a message: header bytes (fewer than four in a truncated
\* message) and the tokens after them.
Message(head, tail) == [head |-> head, tail |-> tail]

(***************************************************************************)
(* _parse_response, stt.py:176-214.                                        *)
(***************************************************************************)
\* Lines 204-214: decompress and deserialize the extracted body.
DecodeBody(result, body, payload_size, serialization_method, message_compression) ==
    LET raw == BytesContent(body)
        unz == IF message_compression = GZIP THEN GzipDecompress(raw) ELSE Ok(raw)
    IN  IF ~unz.ok THEN unz
        ELSE LET msg ==
                   IF serialization_method = JSON
                   THEN LET s == StrUtf8(unz.val)
                        IN  IF ~s.ok THEN s
                            ELSE LET v == JsonLoads(s.val)
                                 IN  IF ~v.ok THEN v ELSE Ok(PyVal("json", v.val))
                   ELSE IF serialization_method # NO_SERIALIZATION
                   THEN LET s == StrUtf8(unz.val)
                        IN  IF ~s.ok THEN s ELSE Ok(PyVal("str", NoJson))
                   ELSE Ok(PyVal("bytes", NoJson))
             IN  IF ~msg.ok THEN msg
                 ELSE Ok([result EXCEPT !.payload_msg = <<msg.val>>,
                                        !.payload_size = <<payload_size>>])

_parse_response(r) ==
    IF Len(r.head) < 4 THEN Raise("IndexError")
    ELSE
    LET header_size == r.head[1] % 16
        message_type == r.head[2] \div 16
        serialization_method == r.head[3] \div 16
        message_compression == r.head[3] % 16
        whole == <<Word((((r.head[1] % 128) * 256 + r.head[2]) * 256 + r.head[3]) * 256
                        + r.head[4])>> \o r.tail
        payload == DropWords(whole, header_size)
    IN  IF message_type = SERVER_FULL_RESPONSE
        THEN DecodeBody(EmptyResult, Drop4(payload), Signed4(payload),
                        serialization_method, message_compression)
        ELSE IF message_type = SERVER_ACK
        THEN LET result == [EmptyResult EXCEPT !.seq = <<Signed4(payload)>>]
             IN  IF ByteLen(payload) >= 8
                 THEN DecodeBody(result, DropWords(payload, 2),
                                 Unsigned4(Drop4(payload)),
                                 serialization_method, message_compression)
                 ELSE Ok(result)
        ELSE IF message_type = SERVER_ERROR_RESPONSE
        THEN DecodeBody([EmptyResult EXCEPT !.code = <<Unsigned4(payload)>>],
                        DropWords(payload, 2), Unsigned4(Drop4(payload)),
                        serialization_method, message_compression)
        ELSE Ok(EmptyResult)

(***************************************************************************)
(* The environment of a call.  The stream yields chunks (a chunk is        *)
(* modelled by its length in bytes).  The network either refuses the       *)
(* connection or serves the exchanges in order: in exchange x the send     *)
(* raises, or the frame is sent and the receive raises, or the frame is    *)
(* sent and the message replies[x] is received.  A connection that has no  *)
(* further reply was closed by the peer.                                   *)
(***************************************************************************)
NoMessage == Message(<<>>, <<>>)
Reply(k, msg) == [k |-> k, msg |-> msg]

ServerHead(message_type, ser, comp) ==
    <<PROTOCOL_VERSION * 16 + DEFAULT_HEADER_SIZE, message_type * 16, ser * 16 + comp, 0>>

FullResponse(j) ==
    Message(ServerHead(SERVER_FULL_RESPONSE, JSON, GZIP), <<Word(40), GzJsonBlob(j, 40)>>)
AckSeqOnly == Message(ServerHead(SERVER_ACK, JSON, GZIP), <<Word(1)>>)
ErrorResponse(j) ==
    Message(ServerHead(SERVER_ERROR_RESPONSE, JSON, GZIP),
            <<Word(45000001), Word(40), GzJsonBlob(j, 40)>>)
UnknownTypeResponse(j) ==
    Message(ServerHead(5, JSON, GZIP), <<Word(40), GzJsonBlob(j, 40)>>)
TruncatedMessage == Message(<<17>>, <<>>)

\* A status code of the service other than the success code.
OtherCode == SuccessCode + 13
FinalText == "hello world"

Replies ==
    {Reply("frame", FullResponse(JDict(<<SuccessCode>>, <<>>))),
     Reply("frame", FullResponse(JDict(<<SuccessCode>>, <<FinalText>>))),
     Reply("frame", FullResponse(JDict(<<OtherCode>>, <<FinalText>>))),
     Reply("frame", AckSeqOnly),
     Reply("frame", ErrorResponse(JDict(<<SuccessCode>>, <<FinalText>>))),
     Reply("frame", UnknownTypeResponse(JDict(<<SuccessCode>>, <<FinalText>>))),
     Reply("frame", TruncatedMessage),
     Reply("send_error", NoMessage),
     Reply("recv_error", NoMessage)}

RECURSIVE SeqsUpTo(_, _)
SeqsUpTo(S, n) ==
    IF n = 0 THEN {<<>>}
    ELSE LET shorter == SeqsUpTo(S, n - 1)
         IN  shorter \cup {Append(q, e) : q \in shorter, e \in S}

\* A stream of N chunks takes N + 1 exchanges: the full request and N audio
\* frames.
MaxReplies == MaxChunks + 1

\* Chunk lengths: an empty chunk and a chunk of one byte.
Chunks == {0, 1}
Streams == SeqsUpTo(Chunks, MaxChunks)
Nets == [connect : {"ok", "fail"}, replies : SeqsUpTo(Replies, MaxReplies)]

ReplyAt(n, x) ==
    IF x <= Len(n.replies) THEN n.replies[x] ELSE Reply("recv_error", NoMessage)

(***************************************************************************)
(* The wire log of a call: what the call did on the connection and the     *)
(* stream, in order.                                                       *)
(*   connect            websockets.connect entered                         *)
(*   send  hdr size n   a frame sent: header bytes, length field, payload  *)
(*                      bytes that follow                                  *)
(*   recv  hdr          a message received: its first bytes                *)
(*   chunk n            the stream yielded a chunk of n bytes              *)
(*   close              the connection closed on leaving the with block    *)
(***************************************************************************)
Event(ev, hdr, size, n) == [ev |-> ev, hdr |-> hdr, size |-> size, n |-> n]

\* len(gzip.compress(b)): gzip adds at least a 10-byte header and an 8-byte
\* trailer around the deflate stream (2 bytes for the empty input).
GzipLen(n) == 20 + n

SpeechResult(text, state) == [text |-> text, state |-> state]

(***************************************************************************)
(* The call in progress is a record m:                                     *)
(*   status  "run" while the body of the try block runs, "ret" once it     *)
(*           has executed a return, "exc" once an exception is propagating *)
(*   value   the returned SpeechResult (status "ret")                      *)
(*   exc     the exception (status "exc")                                  *)
(*   log, x  the wire log, and the number of exchanges begun               *)
(*   msg     res, the message last received                                *)
(*   dec     result, the dict last decoded                                 *)
(* Every step leaves a call that is no longer running as it is.            *)
(***************************************************************************)
Entered ==
    [status |-> "run", value |-> SpeechResult(<<>>, "ERROR"), exc |-> "none",
     log |-> <<>>, x |-> 0, msg |-> NoMessage, dec |-> EmptyResult]

Throw(m, e) == [m EXCEPT !.status = "exc", !.exc = e]
Return(m, r) == [m EXCEPT !.status = "ret", !.value = r]
Logged(m, e) == [m EXCEPT !.log = Append(@, e)]

\* A step whose expression h (a header being generated, a payload being
\* compressed) may raise.
Evaluated(m, h) ==
    IF m.status # "run" \/ h.ok THEN m ELSE Throw(m, h.exc)

\* await ws.send(header + length + payload), stt.py:236, 259, 278.
SendFrame(n, m, h, plen) ==
    IF m.status # "run" THEN m
    ELSE IF ReplyAt(n, m.x + 1).k = "send_error"
    THEN Throw([m EXCEPT !.x = @ + 1], "ConnectionClosed")
    ELSE Logged([m EXCEPT !.x = @ + 1], Event("send", h.val, plen, plen))

\* res = await ws.recv(), stt.py:237, 261, 280.
RecvFrame(n, m) ==
    IF m.status # "run" THEN m
    ELSE IF ReplyAt(n, m.x).k # "frame" THEN Throw(m, "ConnectionClosed")
    ELSE Logged([m EXCEPT !.msg = ReplyAt(n, m.x).msg],
                Event("recv", ReplyAt(n, m.x).msg.head, 0, m.x))

\* result = <decoder>(res), the decoder's outcome being d.
Decoded(m, d) ==
    IF m.status # "run" THEN m
    ELSE IF ~d.ok THEN Throw(m, d.exc)
    ELSE [m EXCEPT !.dec = d.val]

\* result['payload_msg']['code']: TypeError unless the payload is a JSON
\* object, KeyError when the object has no code.
PayloadCode(result) ==
    IF result.payload_msg[1].py # "json" \/ result.payload_msg[1].j.t # "dict"
    THEN Raise("TypeError")
    ELSE IF result.payload_msg[1].j.code = <<>> THEN Raise("KeyError")
    ELSE Ok(result.payload_msg[1].j.code[1])

\* <code> != self.<attr>: the subscripts are evaluated before the attribute.
CodeDiffers(code, want) ==
    IF ~code.ok THEN code
    ELSE IF ~want.ok THEN want
    ELSE Ok(code.val # want.val)

\* 'payload_msg' in result and result['payload_msg']['code'] != self.success_code
\* (stt.py:263, 282).
CodeRejected(result) ==
    IF result.payload_msg = <<>> THEN Ok(FALSE)
    ELSE CodeDiffers(PayloadCode(result), SelfAttr("success_code"))

\* if <test>: return SpeechResult(None, SpeechResultState.ERROR)
ReturnErrorIf(m, test) ==
    IF m.status # "run" THEN m
    ELSE IF ~test.ok THEN Throw(m, test.exc)
    ELSE IF test.val THEN Return(m, SpeechResult(<<>>, "ERROR"))
    ELSE m

\* result = parse_response(res)  (stt.py:262, 281): the global name
\* parse_response is loaded, then called.
CallParseResponse(msg) ==
    IF ~Global("parse_response").ok THEN Global("parse_response")
    ELSE _parse_response(msg)

ParsedByName(m) == IF m.status # "run" THEN m ELSE Decoded(m, CallParseResponse(m.msg))
ParsedByMethod(m) == IF m.status # "run" THEN m ELSE Decoded(m, _parse_response(m.msg))
AudioChecked(m) == IF m.status # "run" THEN m ELSE ReturnErrorIf(m, CodeRejected(m.dec))

\* gzip.compress(last_chunk): TypeError when last_chunk is None (the empty
\* tuple); the compressed length otherwise.
Compress(last_chunk) ==
    IF last_chunk = <<>> THEN Raise("TypeError") ELSE Ok(GzipLen(last_chunk[1]))

\* The frame built from an evaluated payload and header, sent, and its answer
\* received.
Exchanged(n, m, payload, h) ==
    RecvFrame(n, SendFrame(n, Evaluated(Evaluated(m, payload), h), h,
                           IF payload.ok THEN payload.val ELSE 0))

\* One audio frame and its answer: stt.py:250-264 with the default flag,
\* 268-283 with NEG_SEQUENCE.
AudioExchange(n, m, last_chunk, flags) ==
    AudioChecked(ParsedByName(
        Exchanged(n, m, Compress(last_chunk),
                  _generate_header(CLIENT_AUDIO_ONLY_REQUEST, flags))))

\* stt.py:285-288: the text of the final answer, or ERROR without it.
Finish(m) ==
    IF m.status # "run" THEN m
    ELSE IF m.dec.payload_msg = <<>> THEN Return(m, SpeechResult(<<>>, "ERROR"))
    ELSE IF m.dec.payload_msg[1].py = "bytes" THEN Throw(m, "TypeError")
    ELSE IF m.dec.payload_msg[1].j.text = <<>> THEN Return(m, SpeechResult(<<>>, "ERROR"))
    ELSE Return(m, SpeechResult(m.dec.payload_msg[1].j.text, "SUCCESS"))

\* stt.py:268-288: the buffered chunk goes out flagged NEG_SEQUENCE and the
\* answer decides the result.
TerminalFrame(n, m, last_chunk) == Finish(AudioExchange(n, m, last_chunk, NEG_SEQUENCE))

\* stt.py:248: the stream yields its k-th chunk.
ChunkRead(m, chunk) == Logged(m, Event("chunk", <<>>, 0, chunk))

\* stt.py:246-266: the loop over the stream from its k-th chunk on, with the
\* previous chunk buffered in last_chunk (the empty tuple is None).
RECURSIVE StreamLoop(_, _, _, _, _)
StreamLoop(s, n, m, k, last_chunk) ==
    IF m.status # "run" THEN m
    ELSE IF k > Len(s) THEN TerminalFrame(n, m, last_chunk)
    ELSE IF last_chunk = <<>> THEN StreamLoop(s, n, ChunkRead(m, s[k]), k + 1, <<s[k]>>)
    ELSE StreamLoop(s, n, AudioExchange(n, ChunkRead(m, s[k]), last_chunk, NO_SEQUENCE),
                    k + 1, <<s[k]>>)

\* stt.py:240-244: the checks on the answer to the full request.
HandshakeChecked(m) ==
    IF m.status # "run" THEN m
    ELSE IF m.dec.payload_msg = <<>> THEN Return(m, SpeechResult(<<>>, "ERROR"))
    ELSE ReturnErrorIf(m, CodeDiffers(PayloadCode(m.dec), SelfAttr("_success_code")))

\* stt.py:236-244: the full request and its answer.
Handshake(n, m, header) ==
    HandshakeChecked(ParsedByMethod(Exchanged(n, m, Ok(GzipLen(0)), header)))

\* stt.py:232-234: websockets.connect entered; it raises when the connection
\* cannot be made.
Connect(n, m) ==
    IF m.status # "run" THEN m
    ELSE IF n.connect = "fail" THEN Throw(Logged(m, Event("connect", <<>>, 0, 0)), "OSError")
    ELSE Logged(m, Event("connect", <<>>, 0, 0))

\* Leaving the with block, by return or by exception, closes the connection
\* that was opened.
Closed(n, m) ==
    IF m.log = <<>> \/ n.connect = "fail" THEN m
    ELSE Logged(m, Event("close", <<>>, 0, 0))

\* stt.py:232-288: the with block.
Session(s, n, header) ==
    Closed(n, StreamLoop(s, n, Handshake(n, Connect(n, Evaluated(Entered, header)), header),
                         1, <<>>))

\* No handler: the exception leaves the call and no SpeechResult is returned.
ExceptHandler_Missing == SpeechResult(<<>>, "RAISED")

\* The handler reporting the exception's message as the text of the result.
ExceptHandler_ReportsMessage == SpeechResult(<<"error">>, "ERROR")

\* stt.py:291-292: the handler of "except Exception".
ExceptHandler == SpeechResult(<<>>, "ERROR")

\* What the caller gets from a call that ended as m: the returned value, or
\* the handler's when an exception reached it.
Delivered(m) ==
    [called |-> TRUE,
     result |-> IF m.status = "ret" THEN m.value ELSE ExceptHandler,
     exc |-> m.exc,
     log |-> m.log]

(***************************************************************************)
(* async_process_audio_stream, stt.py:216-294: the value returned to the   *)
(* caller and the wire log of the call.  The header of the full request is *)
(* generated (line 226) before the connection is made.                     *)
(***************************************************************************)
async_process_audio_stream(s, n) ==
    Delivered(Session(s, n, _generate_header(CLIENT_FULL_REQUEST, NO_SEQUENCE)))

NotCalled ==
    [called |-> FALSE, result |-> SpeechResult(<<>>, "ERROR"), exc |-> "none", log |-> <<>>]

(***************************************************************************)
(* Text to speech, tts.py.  A base64 text is a sequence of characters: a   *)
(* character of the base64 alphabet is its 6-bit value 0..63, Pad is "=",  *)
(* NonAlphabet an ASCII character outside the alphabet (such as "!") and   *)
(* NonAscii a character outside ASCII.  Bytes are integers 0..255.         *)
(***************************************************************************)
Pad == 64
NonAlphabet == 65
NonAscii == 66

\* binascii.a2b_base64 without strict mode, which base64.b64decode(s) calls
\* (tts.py:121, validate left at its default): characters outside the
\* alphabet are skipped; a pad that completes a quad ends the decoding and
\* what follows it is ignored; q is the position in the quad, left the bits
\* carried over, pads the pads seen since the last alphabet character.
RECURSIVE a2b_base64(_, _, _, _, _, _)
a2b_base64(s, i, q, left, pads, out) ==
    IF i > Len(s) THEN (IF q = 0 THEN Ok(out) ELSE Raise("binascii.Error"))
    ELSE IF s[i] = Pad
    THEN IF q >= 2 /\ q + pads + 1 >= 4 THEN Ok(out)
         ELSE a2b_base64(s, i + 1, q, left, IF q >= 2 THEN pads + 1 ELSE pads, out)
    ELSE IF s[i] > Pad THEN a2b_base64(s, i + 1, q, left, pads, out)
    ELSE IF q = 0 THEN a2b_base64(s, i + 1, 1, s[i], 0, out)
    ELSE IF q = 1
    THEN a2b_base64(s, i + 1, 2, s[i] % 16, 0, Append(out, left * 4 + s[i] \div 16))
    ELSE IF q = 2
    THEN a2b_base64(s, i + 1, 3, s[i] % 4, 0, Append(out, left * 16 + s[i] \div 4))
    ELSE a2b_base64(s, i + 1, 0, 0, 0, Append(out, left * 64 + s[i]))

\* A JSON value held in a Python variable.  has: the value has the key
\* (object), the element (array) or the substring (string) "data".
Js(t, has, data, encoding) == [t |-> t, has |-> has, data |-> data, encoding |-> encoding]
JsObject(data, encoding) == Js("object", data # <<>>, data, encoding)
JsArray(has) == Js("array", has, <<>>, <<>>)
JsString(has) == Js("string", has, <<>>, <<>>)
JsNumber == Js("number", FALSE, <<>>, <<>>)
JsNull == Js("null", FALSE, <<>>, <<>>)

\* The value under "data": a string, or something else.
DataStr(s) == [t |-> "str", s |-> s]
DataNull == [t |-> "null", s |-> <<>>]
DataNumber == [t |-> "number", s |-> <<>>]

\* The decoder leaving the text as it is.
b64decode_Undecoded(v) ==
    IF v.t # "str" THEN Raise("TypeError") ELSE Ok(v.s)

\* base64.b64decode(v): TypeError unless v is a str (or bytes), ValueError
\* for a str with a character outside ASCII.
b64decode(v) ==
    IF v.t # "str" THEN Raise("TypeError")
    ELSE IF \E i \in 1..Len(v.s) : v.s[i] = NonAscii THEN Raise("ValueError")
    ELSE a2b_base64(v.s, 1, 0, 0, 0, <<>>)

\* response.raise_for_status() (tts.py:114): requests raises HTTPError for
\* the client and server error statuses, 400..599, and for no other.
raise_for_status(response) ==
    IF response.status >= 400 /\ response.status < 600 THEN Raise("HTTPError") ELSE Ok(0)

\* response.json() (tts.py:115)
ResponseJson(response) ==
    IF response.body.k = "json" THEN Ok(response.body.v) ELSE Raise("JSONDecodeError")

\* "data" in data (tts.py:117): TypeError for a value that is no container.
HasData(data) ==
    IF data.t \in {"object", "array", "string"} THEN Ok(data.has) ELSE Raise("TypeError")

\* data["data"] (tts.py:121): only an object can be subscripted with a str.
DataField(data) ==
    IF data.t = "object" THEN Ok(data.data[1]) ELSE Raise("TypeError")

\* The TtsAudioType returned: (None, None), or (format, bytes).
NoAudio == [fmt |-> <<>>, data |-> <<>>]
TtsAudio(fmt, bytes) == [fmt |-> <<fmt>>, data |-> <<bytes>>]

\* tts.py:121-122
Decoded64(field) ==
    IF ~field.ok THEN field
    ELSE IF ~b64decode(field.val).ok THEN b64decode(field.val)
    ELSE Ok(TtsAudio("mp3", b64decode(field.val).val))

\* tts.py:117-122
FromJson(data) ==
    IF ~data.ok THEN data
    ELSE IF ~HasData(data.val).ok THEN HasData(data.val)
    ELSE IF ~HasData(data.val).val THEN Ok(NoAudio)
    ELSE Decoded64(DataField(data.val))

\* tts.py:109-122: the body of the try block; requests.post raises or gives
\* the response.
TtsTry(h) ==
    IF h.k = "raise" THEN Raise("ConnectionError")
    ELSE IF ~raise_for_status(h).ok THEN raise_for_status(h)
    ELSE FromJson(ResponseJson(h))

\* tts.py:124-126: the handler of "except Exception".
TtsExceptHandler == NoAudio

\* async_get_tts_audio, tts.py:78-126: what the caller gets, the number of
\* POSTs made and the exception the handler caught.
async_get_tts_audio(h) ==
    [called |-> TRUE,
     result |-> IF TtsTry(h).ok THEN TtsTry(h).val ELSE TtsExceptHandler,
     posts |-> 1,
     exc |-> TtsTry(h).exc]

NotSynthesized == [called |-> FALSE, result |-> NoAudio, posts |-> 0, exc |-> "none"]

\* The endpoint: the POST raises, or a response arrives with a status and a
\* body that is JSON text of some value or no JSON.
HttpRaise == [k |-> "raise", status |-> 0, body |-> [k |-> "other", v |-> JsNull]]
HttpResponse(status, body) == [k |-> "response", status |-> status, body |-> body]
NoHttp == [k |-> "none", status |-> 0, body |-> [k |-> "other", v |-> JsNull]]

\* Characters of the texts: "A", "Q", "=", "!" and a non-ASCII character.
B64Symbols == {0, 16, Pad, NonAlphabet, NonAscii}
B64Texts == SeqsUpTo(B64Symbols, MaxB64Len)

JsonValues ==
    {JsObject(<<DataStr(s)>>, e) : s \in B64Texts, e \in {<<>>, <<"wav">>}}
    \cup {JsObject(<<>>, <<>>), JsObject(<<>>, <<"wav">>),
          JsObject(<<DataNull>>, <<>>), JsObject(<<DataNumber>>, <<>>),
          JsArray(FALSE), JsArray(TRUE), JsString(FALSE), JsString(TRUE),
          JsNumber, JsNull}

HttpBodies == {[k |-> "json", v |-> v] : v \in JsonValues} \cup {[k |-> "other", v |-> JsNull]}
HttpStatuses == {200, 300, 404, 500}
HttpOutcomes == {HttpRaise} \cup {HttpResponse(st, b) : st \in HttpStatuses, b \in HttpBodies}

(***************************************************************************)
(* A request frame as the session builds it (stt.py:226-228, 251-257,      *)
(* 269-276): the generated header, the length of the payload as a 4-byte   *)
(* big-endian word, the payload.                                           *)
(***************************************************************************)
FramedRequest(header, payload) ==
    IF ~header.ok THEN header
    ELSE Ok(Message(header.val, <<Word(ByteLen(payload))>> \o payload))

NoFrame ==
    [message_type |-> 0, flags |-> 0, serialization |-> 0, compression |-> 0,
     payload |-> <<>>]
NotFramed == [done |-> FALSE, enc |-> Raise("none"), dec |-> Raise("none")]

(***************************************************************************)
(* A recognition call: the caller hands the entity a stream, the network   *)
(* behaves as net says, and the call returns.                              *)
(***************************************************************************)
NotDecoded == [done |-> FALSE, out |-> Raise("none")]

Init ==
    /\ stream \in Streams
    /\ net \in Nets
    /\ outcome = NotCalled
    /\ res = NoMessage
    /\ parsed = NotDecoded
    /\ http = NoHttp
    /\ tts = NotSynthesized
    /\ frame = NoFrame
    /\ rt = NotFramed

Call ==
    /\ ~outcome.called
    /\ outcome' = async_process_audio_stream(stream, net)
    /\ UNCHANGED <<stream, net, res, parsed, http, tts, frame, rt>>

Next == Call

Spec == Init /\ [][Next]_vars

(***************************************************************************)
(* The decoder on its own: _parse_response applied to a message.  The      *)
(* messages have every message type of the protocol and one outside it,    *)
(* every serialization and compression method, header sizes from 0 to      *)
(* MaxHeaderSize words, and bodies that are missing, short, well formed or *)
(* damaged; some messages are cut inside the header.                       *)
(***************************************************************************)
MessageTypes ==
    {CLIENT_FULL_REQUEST, CLIENT_AUDIO_ONLY_REQUEST, 5,
     SERVER_FULL_RESPONSE, SERVER_ACK, SERVER_ERROR_RESPONSE}
Serializations == {NO_SERIALIZATION, JSON, THRIFT, CUSTOM_TYPE}
Compressions == {NO_COMPRESSION, GZIP, CUSTOM_COMPRESSION}

Heads ==
    {<<PROTOCOL_VERSION * 16 + hs, mt * 16, ser * 16 + comp, 0>> :
        hs \in 0..MaxHeaderSize, mt \in MessageTypes,
        ser \in Serializations, comp \in Compressions}

Bodies ==
    {GzJsonBlob(JDict(<<SuccessCode>>, <<FinalText>>), 40),
     GzJsonBlob(JOther, 24),
     JsonBlob(JDict(<<OtherCode>>, <<>>), 14),
     JsonBlob(JOther, 2),
     GzTextBlob(30)}

Tails ==
    {<<>>, <<Word(1)>>, <<Word(1), Word(40)>>, <<Word(1), JsonBlob(JOther, 2)>>}
    \cup {<<b>> : b \in Bodies}
    \cup {<<Word(b.len), b>> : b \in Bodies}
    \cup {<<Word(1), Word(b.len), b>> : b \in Bodies}

Messages ==
    {Message(h, t) : h \in Heads, t \in Tails}
    \cup {Message(<<>>, <<>>), Message(<<17>>, <<>>), Message(<<17, 144, 17>>, <<>>)}

InitDecode ==
    /\ stream = <<>>
    /\ net = [connect |-> "ok", replies |-> <<>>]
    /\ outcome = NotCalled
    /\ res \in Messages
    /\ parsed = NotDecoded
    /\ http = NoHttp
    /\ tts = NotSynthesized
    /\ frame = NoFrame
    /\ rt = NotFramed

Decode ==
    /\ ~parsed.done
    /\ parsed' = [done |-> TRUE, out |-> _parse_response(res)]
    /\ UNCHANGED <<stream, net, outcome, res, http, tts, frame, rt>>

NextDecode == Decode

SpecDecode == InitDecode /\ [][NextDecode]_vars

(***************************************************************************)
(* A synthesis call: the endpoint behaves as http says and the call        *)
(* returns.                                                                *)
(***************************************************************************)
InitTts ==
    /\ stream = <<>>
    /\ net = [connect |-> "ok", replies |-> <<>>]
    /\ outcome = NotCalled
    /\ res = NoMessage
    /\ parsed = NotDecoded
    /\ http \in HttpOutcomes
    /\ tts = NotSynthesized
    /\ frame = NoFrame
    /\ rt = NotFramed

GetTtsAudio ==
    /\ ~tts.called
    /\ tts' = async_get_tts_audio(http)
    /\ UNCHANGED <<stream, net, outcome, res, parsed, http, frame, rt>>

NextTts == GetTtsAudio

SpecTts == InitTts /\ [][NextTts]_vars

(***************************************************************************)
(* Framing and decoding: a frame is built for a message type, flags and    *)
(* payload, and the bytes are handed to _parse_response.  The header       *)
(* generator takes the type and the flags only.                            *)
(***************************************************************************)
ClientServerTypes ==
    {CLIENT_FULL_REQUEST, CLIENT_AUDIO_ONLY_REQUEST,
     SERVER_FULL_RESPONSE, SERVER_ACK, SERVER_ERROR_RESPONSE}
SequenceFlags == {NO_SEQUENCE, POS_SEQUENCE, NEG_SEQUENCE, NEG_SEQUENCE_1}

Frames ==
    [message_type : ClientServerTypes, flags : SequenceFlags,
     serialization : Serializations, compression : Compressions,
     payload : {<<>>} \cup {<<b>> : b \in Bodies}]

InitCodec ==
    /\ stream = <<>>
    /\ net = [connect |-> "ok", replies |-> <<>>]
    /\ outcome = NotCalled
    /\ res = NoMessage
    /\ parsed = NotDecoded
    /\ http = NoHttp
    /\ tts = NotSynthesized
    /\ frame \in Frames
    /\ rt = NotFramed

Framed(f) == FramedRequest(_generate_header(f.message_type, f.flags), f.payload)

RoundTrip ==
    /\ ~rt.done
    /\ rt' = [done |-> TRUE,
              enc |-> Framed(frame),
              dec |-> IF Framed(frame).ok THEN _parse_response(Framed(frame).val)
                      ELSE Framed(frame)]
    /\ UNCHANGED <<stream, net, outcome, res, parsed, http, tts, frame>>

NextCodec == RoundTrip

SpecCodec == InitCodec /\ [][NextCodec]_vars

(***************************************************************************)
(* A recognition call that is scheduled: the caller awaits the coroutine,  *)
(* so the call is run.  The server answers a frame with a full response,   *)
(* with a bare acknowledgement, or the connection fails.                   *)
(***************************************************************************)
LiveReplies ==
    {Reply("frame", FullResponse(JDict(<<SuccessCode>>, <<FinalText>>))),
     Reply("frame", AckSeqOnly),
     Reply("recv_error", NoMessage)}
LiveNets == [connect : {"ok", "fail"}, replies : SeqsUpTo(LiveReplies, MaxReplies)]

InitLive ==
    /\ stream \in Streams
    /\ net \in LiveNets
    /\ outcome = NotCalled
    /\ res = NoMessage
    /\ parsed = NotDecoded
    /\ http = NoHttp
    /\ tts = NotSynthesized
    /\ frame = NoFrame
    /\ rt = NotFramed

SpecLive == InitLive /\ [][Next]_vars /\ WF_vars(Call)

(***************************************************************************)
(* Reading the wire log and the network.                                   *)
(***************************************************************************)
IsSend(e) == e.ev = "send"
IsAudioSend(e) == e.ev = "send" /\ e.hdr[2] \div 16 = CLIENT_AUDIO_ONLY_REQUEST
FlagsOf(e) == e.hdr[2] % 16
Sends(log) == SelectSeq(log, IsSend)
AudioSends(log) == SelectSeq(log, IsAudioSend)

\* The JSON object a reply carries, read off the reply itself.
ReplyJson(r) ==
    IF r.k = "frame" /\ r.msg.tail # <<>> THEN r.msg.tail[Len(r.msg.tail)].c.j ELSE NoJson

\* A full response whose status code is the success code.
IsSuccessReply(r) ==
    /\ r.k = "frame"
    /\ Len(r.msg.head) = 4
    /\ r.msg.head[2] \div 16 = SERVER_FULL_RESPONSE
    /\ ReplyJson(r).code = <<SuccessCode>>

\* The server answers each of the first k frames with the success code.
AnswersSuccess(n, k) ==
    /\ n.connect = "ok"
    /\ Len(n.replies) >= k
    /\ \A i \in 1..k : IsSuccessReply(n.replies[i])

\* The log ends with the terminal frame, its answer and the close.
TerminalAnswered(log) ==
    /\ Len(log) >= 3
    /\ log[Len(log)].ev = "close"
    /\ log[Len(log) - 1].ev = "recv"
    /\ IsAudioSend(log[Len(log) - 2])
    /\ FlagsOf(log[Len(log) - 2]) = NEG_SEQUENCE

MessageTypeOf(msg) == msg.head[2] \div 16

(***************************************************************************)
(* Every call ends the same way: the header of the full request cannot be  *)
(* generated (stt.py:140 loads JSON_SERIALIZATION and GZIP_COMPRESSION,    *)
(* which the module does not bind), the NameError is caught at line 291    *)
(* and the call returns ERROR without having opened a connection.          *)
(***************************************************************************)
CallEndsBeforeConnecting ==
    outcome.called =>
        /\ outcome.exc = "NameError"
        /\ outcome.log = <<>>
        /\ outcome.result = SpeechResult(<<>>, "ERROR")

(***************************************************************************)
(* C1.  For a stream of N >= 1 chunks and a server that answers every      *)
(* frame with the success code, the call sends the full request and then   *)
(* exactly N audio frames: the first N - 1 flagged NO_SEQUENCE and the     *)
(* N-th flagged NEG_SEQUENCE.                                              *)
(***************************************************************************)
C1_SendsNAudioFrames ==
    (outcome.called /\ Len(stream) >= 1 /\ AnswersSuccess(net, Len(stream) + 1)) =>
        /\ Len(Sends(outcome.log)) = Len(stream) + 1
        /\ Sends(outcome.log)[1].hdr[2] \div 16 = CLIENT_FULL_REQUEST
        /\ Len(AudioSends(outcome.log)) = Len(stream)
        /\ \A i \in 1..Len(AudioSends(outcome.log)) :
              FlagsOf(AudioSends(outcome.log)[i]) =
                  IF i < Len(stream) THEN NO_SEQUENCE ELSE NEG_SEQUENCE

(***************************************************************************)
(* C3.  When the answer to the full request and to every audio frame       *)
(* carries the success code and the answer to the terminal frame has a     *)
(* text field T, the call returns SUCCESS with exactly T.                  *)
(***************************************************************************)
C3_ReturnsFinalText ==
    (/\ outcome.called
     /\ Len(stream) >= 1
     /\ AnswersSuccess(net, Len(stream) + 1)
     /\ ReplyJson(net.replies[Len(stream) + 1]).text # <<>>) =>
        outcome.result =
            SpeechResult(ReplyJson(net.replies[Len(stream) + 1]).text, "SUCCESS")

(***************************************************************************)
(* C7.  The caller never receives partial text: a SUCCESS result is        *)
(* returned only after the terminal frame was sent and answered and        *)
(* carries the text field of that answer; when that answer has no text     *)
(* field the result is ERROR; every ERROR result carries no text (None).   *)
(***************************************************************************)
C7_NoPartialText ==
    outcome.called =>
        /\ outcome.result.state \in {"SUCCESS", "ERROR"}
        /\ outcome.result.state = "ERROR" => outcome.result.text = <<>>
        /\ outcome.result.state = "SUCCESS" =>
              /\ TerminalAnswered(outcome.log)
              /\ outcome.result.text # <<>>
              /\ outcome.result.text =
                     ReplyJson(net.replies[outcome.log[Len(outcome.log) - 1].n]).text
        /\ (/\ TerminalAnswered(outcome.log)
            /\ ReplyJson(net.replies[outcome.log[Len(outcome.log) - 1].n]).text = <<>>) =>
              outcome.result.state = "ERROR"

\* A call on a stream with chunks, against a server that would answer every
\* frame with the success code and a text, has returned ERROR with no text.
C7_ErrorCarriesNoText ==
    /\ outcome.called
    /\ Len(stream) >= 1
    /\ AnswersSuccess(net, Len(stream) + 1)
    /\ ReplyJson(net.replies[1]).text # <<>>
    /\ outcome.result = SpeechResult(<<>>, "ERROR")

(***************************************************************************)
(* C10.  Decoding a message whose type is none of SERVER_FULL_RESPONSE,    *)
(* SERVER_ACK and SERVER_ERROR_RESPONSE fails: it raises and returns no    *)
(* result.                                                                 *)
(***************************************************************************)
C10_UnknownTypeIsRejected ==
    (/\ parsed.done
     /\ Len(res.head) = 4
     /\ MessageTypeOf(res) \notin {SERVER_FULL_RESPONSE, SERVER_ACK, SERVER_ERROR_RESPONSE}) =>
        ~parsed.out.ok

(***************************************************************************)
(* The decoder on a SERVER_ACK message with fewer than 8 bytes after the   *)
(* header: the result holds seq alone and nothing is raised.               *)
(***************************************************************************)
AckSeqOnlyDecodes ==
    (/\ parsed.done
     /\ Len(res.head) = 4
     /\ MessageTypeOf(res) = SERVER_ACK
     /\ res.head[1] % 16 = 1
     /\ ByteLen(res.tail) < 8) =>
        /\ parsed.out.ok
        /\ parsed.out.val.seq = <<Unsigned4(res.tail)>>
        /\ parsed.out.val.payload_msg = <<>>
        /\ parsed.out.val.code = <<>>

(***************************************************************************)
(* C11.  A SERVER_ACK that carries the 4-byte sequence alone is no error:  *)
(* when the server accepts the full request and answers the first audio    *)
(* frame of a stream of two or more chunks with such an acknowledgement    *)
(* (and the connection does not fail), the session goes on and sends the   *)
(* next chunk.                                                             *)
(***************************************************************************)
C11_AckContinuesStreaming ==
    (/\ outcome.called
     /\ Len(stream) >= 2
     /\ AnswersSuccess(net, 1)
     /\ Len(net.replies) >= 2
     /\ net.replies[2] = Reply("frame", AckSeqOnly)
     /\ ReplyAt(net, 3).k # "send_error") =>
        Len(AudioSends(outcome.log)) >= 2

(***************************************************************************)
(* C17.  With an empty stream and a server that accepts the full request,  *)
(* the session sends a terminal CLIENT_AUDIO_ONLY_REQUEST frame, flagged   *)
(* NEG_SEQUENCE, before it returns.                                        *)
(***************************************************************************)
C17_EmptyStreamSendsTerminal ==
    (outcome.called /\ stream = <<>> /\ AnswersSuccess(net, 1)) =>
        \E i \in 1..Len(outcome.log) :
            /\ IsAudioSend(outcome.log[i])
            /\ FlagsOf(outcome.log[i]) = NEG_SEQUENCE

(***************************************************************************)
(* Reading the synthesis endpoint.                                         *)
(***************************************************************************)
\* An HTTP success status, 2xx.
SuccessStatus(st) == st >= 200 /\ st < 300

\* Base64 text as RFC 4648 defines it: quads of alphabet characters, the
\* last quad ending in at most two pads.
ValidBase64(s) ==
    /\ Len(s) % 4 = 0
    /\ \A i \in 1..Len(s) :
          \/ s[i] < Pad
          \/ /\ s[i] = Pad
             /\ i > Len(s) - 2
             /\ (i = Len(s) \/ s[i + 1] = Pad)

\* The base64 encoding of a byte string.
RECURSIVE b64encode(_)
b64encode(b) ==
    IF b = <<>> THEN <<>>
    ELSE IF Len(b) = 1 THEN <<b[1] \div 4, (b[1] % 4) * 16, Pad, Pad>>
    ELSE IF Len(b) = 2
    THEN <<b[1] \div 4, (b[1] % 4) * 16 + b[2] \div 16, (b[2] % 16) * 4, Pad>>
    ELSE <<b[1] \div 4, (b[1] % 4) * 16 + b[2] \div 16,
           (b[2] % 16) * 4 + b[3] \div 64, b[3] % 64>>
         \o b64encode(SubSeq(b, 4, Len(b)))

\* The response is JSON text of an object with a data field.
HasDataField(h) ==
    /\ h.k = "response"
    /\ h.body.k = "json"
    /\ h.body.v.t = "object"
    /\ h.body.v.data # <<>>

\* The data field holds valid base64.
HasValidData(h) ==
    /\ HasDataField(h)
    /\ h.body.v.data[1].t = "str"
    /\ ValidBase64(h.body.v.data[1].s)

\* The failures of a synthesis call: the POST raised, the status is no
\* success, the body is no JSON, the JSON has no data field or the field is
\* no valid base64.
TtsFailure(h) ==
    \/ h.k = "raise"
    \/ ~SuccessStatus(h.status)
    \/ ~HasValidData(h)

(***************************************************************************)
(* C12.  Every failure of the synthesis call (the POST raising, a          *)
(* non-success status, a body that is no JSON, JSON without a data field,  *)
(* a data field that is no valid base64) makes async_get_tts_audio return  *)
(* (None, None): no audio bytes come back together with a failure.         *)
(***************************************************************************)
C12_FailureGivesNoAudio ==
    (tts.called /\ TtsFailure(http)) => tts.result = NoAudio

(***************************************************************************)
(* C14.  On a success status with a JSON body whose data field is valid    *)
(* base64, async_get_tts_audio makes exactly one POST and returns          *)
(* ("mp3", bytes), the bytes being those the data field encodes, whatever  *)
(* encoding the body reports.                                              *)
(***************************************************************************)
C14_ReturnsDecodedMp3 ==
    (tts.called /\ SuccessStatus(http.status) /\ HasValidData(http)) =>
        /\ tts.posts = 1
        /\ tts.result.fmt = <<"mp3">>
        /\ tts.result.data # <<>>
        /\ b64encode(tts.result.data[1]) = http.body.v.data[1].s

\* The call has returned two bytes as mp3 for a body that reports wav and
\* whose data is a quad ending in one pad.
C14_DecodedTwoBytes ==
    /\ tts.called
    /\ http.status = 200
    /\ HasValidData(http)
    /\ http.body.v.encoding = <<"wav">>
    /\ http.body.v.data[1].s = <<16, 16, 16, Pad>>
    /\ tts.result = TtsAudio("mp3", <<65, 4>>)

(***************************************************************************)
(* C13.  Round trip: for every message type, flags, serialization and      *)
(* compression method and every payload, the frame is built, decoding its  *)
(* bytes succeeds and gives the header fields that went in, the payload,   *)
(* and a payload size equal to the length of the payload.                  *)
(***************************************************************************)
C13_RoundTrip ==
    rt.done =>
        /\ rt.enc.ok
        /\ rt.enc.val.head[2] = frame.message_type * 16 + frame.flags
        /\ rt.enc.val.head[3] = frame.serialization * 16 + frame.compression
        /\ rt.dec.ok
        /\ rt.dec.val.payload_size = <<ByteLen(frame.payload)>>
        /\ rt.dec.val.payload_msg # <<>>

(***************************************************************************)
(* C19.  Every call returns, and returns one result: SUCCESS with a text   *)
(* or ERROR with None; the wire log of a returned call does not grow, so   *)
(* nothing is sent or received after the result.                           *)
(***************************************************************************)
C19_ReturnsOneOutcome ==
    /\ <>outcome.called
    /\ [](outcome.called =>
            \/ outcome.result.state = "SUCCESS" /\ outcome.result.text # <<>>
            \/ outcome.result = SpeechResult(<<>>, "ERROR"))
    /\ [][outcome.called => outcome' = outcome]_vars

\* A call on a stream of MaxChunks chunks, against a server with an answer
\* for every frame, has returned ERROR with None.
C19_ReturnedError ==
    /\ outcome.called
    /\ Len(stream) = MaxChunks
    /\ net.connect = "ok"
    /\ Len(net.replies) = Len(stream) + 1
    /\ \A i \in 1..Len(net.replies) : net.replies[i].k = "frame"
    /\ outcome.result = SpeechResult(<<>>, "ERROR")

====
